---- MODULE Spec2Model ----
(***************************************************************************)
(* EyesOff: the detection-and-alert decision pipeline.                     *)
(*                                                                         *)
(* Two threads are modelled.  The polling thread is                        *)
(* DetectionManagerThread.run (src/core/manager.py); its position is pc.   *)
(* The GUI thread runs the MainWindow handlers (src/gui/main_window.py)    *)
(* and the AlertDialog (src/gui/alert.py) one at a time; its position is   *)
(* gui_pc.  Signals emitted by the polling thread reach the GUI thread     *)
(* through Qt's queued connections: gui_queue.                             *)
(*                                                                         *)
(* Time is counted in polling intervals: one unit is the 0.05 s sleep of   *)
(* the run loop.                                                           *)
(***************************************************************************)
EXTENDS Integers, Sequences, FiniteSets, TLC

\* ------------------------------------------------------------------ bounds
\* Largest face count a frame reports.
MaxFaces == 3
\* Polling ticks processed over the life of the thread object
\* (stats["total_detections"] is never reset).
MaxTicks == 3
\* Signals emitted by the polling thread and not yet handled by the GUI thread.
MaxQueue == 2
\* Single-shot timers of one kind that are armed and have not fired.
MaxTimers == 1
\* _show_privacy_alert threads that DetectionManager.process_detection starts.
MaxShowThreads == 2

\* Ticks that report the same count before, and after, a bad frame.
MaxSteady == 3

\* ------------------------------------------------------- program constants
\* time.sleep(0.05) at the end of every loop iteration: the unit of time.
SleepInterval == 1
\* self.detection_delay_frames = 6
DefaultDelayFrames == 6
\* "face_threshold": 1
DefaultFaceThreshold == 1
\* "debounce_time": 1.0 seconds = 20 polling intervals
DefaultDebounceTime == 20
\* settings["alert_duration"] = 1.0 seconds = 20 polling intervals
AutoDismissDuration == 20
\* if self.stats["total_detections"] % 10 == 0
StatsPeriod == 10

\* The longest update file, in chunks of 8192 bytes.
MaxChunks == 2

\* SHA-256 digests as hexdigest() prints them.
Digests == {"ab", "cd"}

\* Bodies of the EyesOff.checksum asset: empty, a digest followed by a
\* newline, a digest in capitals, another digest.
ChecksumTexts == {"", "ab\n", "AB", "cd"}
\* "alert_duration": None
NoDuration == 0 - 1

\* ------------------------------------------------------------ input ranges
FaceCounts == 0 .. MaxFaces
\* face_threshold_spin: 1..10; two values are enough to move a count across
\* the threshold by a settings change.
Thresholds == {1, 2}
\* detection_delay_spin in hundredths of a second (two decimals):
\* 0.00 s, 0.07 s.
DelayChoices == {0, 7}
\* debounce_spin in polling intervals: 1.0 s.
DebounceChoices == {DefaultDebounceTime}
\* alert_duration handed to AlertDialog.update_settings.
DurationChoices == {NoDuration, AutoDismissDuration}
\* Thread(target=self._show_privacy_alert, daemon=True)
ShowThreads == 1 .. MaxShowThreads

\* The concrete scenario of the specification: the face counts of eight
\* consecutive ticks and the transitions expected of them.
Scenario == <<0, 0, 2, 2, 2, 1, 1, 0>>
ScenarioTransitions ==
    <<"NONE", "NONE", "RAISE", "NONE", "NONE", "CLEAR", "NONE", "NONE">>

VARIABLES
    \* ---- DetectionManagerThread fields
    is_running, is_paused, current_face_count,
    detection_manager,        \* TRUE iff self.detection_manager is not None
    is_alert_showing,         \* detection_manager.is_alert_showing
    previous_face_count, num_faces_last_alert,
    consecutive_detections, detection_delay_frames, last_detection_state,
    settings,                 \* [face_threshold, debounce_time]
    stats,                    \* [total_detections, alert_count]
    \* ---- polling thread: position and locals of _process_detection
    pc, face_count, multiple_viewers_detected, was_alert_showing,
    \* ---- GUI thread
    gui_pc, gui_queue, is_monitoring,
    alert_on,                 \* config_manager.get("alert_on")
    alert_duration,           \* AlertDialog.alert_duration
    alert_visible,            \* AlertDialog.isVisible()
    dismiss_timers,           \* pending AlertDialog.dismiss_timer shots
    notification_timers,      \* pending _auto_dismiss_notification_alert shots
    \* ---- observation of the run (history, not program state)
    elapsed,                  \* intervals slept since the latest RAISE/CLEAR,
                              \* capped at the debounce time
    streak,                   \* ticks in a row with the same thresholded
    streak_state,             \* boolean, and that boolean
    streak_clean,             \* the streak follows a tick of the other state
                              \* and the flag was false all along
    showing_since,            \* count of the RAISE since which the flag has
                              \* stayed true, 0 if there is none
    raised_live,              \* a RAISE with no dismissal event after it
    last_transition,          \* the latest transition a tick completed
    dismissed_at,             \* count of the alert the user dismissed, while
                              \* the ticks since report that count; else 0
    first_after_dismissal,    \* no tick has run since that dismissal
    dismissal_was_showing,    \* is_alert_showing when the running dismissal began
    script, tick_log, transition_log,
    \* ---- configuration and objects outside the default run
    launch_app,               \* launch_app_enabled and launch_app_path are set
    face_counts,              \* stats["face_counts"], followed in scripted runs
    snapshots,                \* the dictionaries emitted through stats_updated
    \* ---- UpdateCheckerThread.download_update_dmg
    dl_pc,                    \* position of the call to download_update_dmg
    dl_signals,               \* signals the call has emitted, in order
    total_size,               \* content-length, in chunks; 0 when not sent
    dl_chunks,                \* chunks the response still holds
    downloaded, last_progress,
    expected_checksum,        \* "" stands for None as well (both are falsy)
    file_exists,              \* a file is at file_path
    app_version_set,          \* "app_version" was set to latest_version
    mutex,                    \* holder of DetectionManagerThread.mutex
    dm_lock,                  \* holder of DetectionManager.lock
    show_pc,                  \* position of each _show_privacy_alert thread
    dismiss_event             \* DetectionManager.dismiss_event.is_set()

life == <<is_running, is_paused, detection_manager>>
config == <<detection_delay_frames, settings>>
counters == <<previous_face_count, consecutive_detections,
              last_detection_state, stats>>
thread_vars == <<life, config, counters, current_face_count,
                 is_alert_showing, num_faces_last_alert>>
locals == <<face_count, multiple_viewers_detected, was_alert_showing>>
tick_vars == <<pc, locals>>
alert_cfg == <<alert_on, alert_duration>>
timers == <<dismiss_timers, notification_timers>>
gui_vars == <<gui_pc, gui_queue, is_monitoring, alert_cfg, alert_visible,
              timers>>
obs_tick == <<elapsed, streak, streak_state, streak_clean>>
obs_alert == <<showing_since, raised_live, last_transition>>
obs_dismiss == <<dismissed_at, first_after_dismissal, dismissal_was_showing>>
obs_log == <<script, tick_log, transition_log>>
obs_vars == <<obs_tick, obs_alert, obs_dismiss, obs_log>>
dm_vars == <<dm_lock, show_pc, dismiss_event>>
snap_vars == <<face_counts, snapshots>>
dl_vars == <<dl_pc, dl_signals, total_size, dl_chunks, downloaded,
             last_progress, expected_checksum, file_exists, app_version_set>>
ext_vars == <<launch_app, mutex, dm_vars, snap_vars, dl_vars>>
vars == <<thread_vars, tick_vars, gui_vars, obs_vars, ext_vars>>

\* ------------------------------------------------------------------ helpers
Max(a, b) == IF a >= b THEN a ELSE b

Min(a, b) == IF a <= b THEN a ELSE b

\* max(1, int(delay_seconds * 30)) with delay_seconds given in hundredths.
DelayFrames(hundredths) == Max(1, (hundredths * 30) \div 100)

\* The comparison made inclusive.
MultipleViewersInclusive(count, threshold) == count >= threshold

\* multiple_viewers_detected = face_count > threshold
MultipleViewers(count, threshold) == count > threshold

\* The verification counter: restart at 1 when the thresholded state
\* changed, count on otherwise.
NextConsecutive(consecutive, changed) ==
    IF changed THEN 1 ELSE consecutive + 1

\* The gate opened one tick early.
ConfirmedEarly(consecutive, delay) == consecutive + 1 >= delay

\* if self.consecutive_detections >= self.detection_delay_frames
Confirmed(consecutive, delay) == consecutive >= delay

\* The raise condition without its look at the alert flag.
ShouldRaiseWhileShowing(multiple, was_showing, increased, last_alert) ==
    multiple /\ (increased \/ last_alert = 0)

\* if multiple_viewers_detected and not was_alert_showing and
\*    (face_count_increased or self.num_faces_last_alert == 0)
ShouldRaise(multiple, was_showing, increased, last_alert) ==
    multiple /\ ~was_showing /\ (increased \/ last_alert = 0)

\* elif not multiple_viewers_detected and was_alert_showing
ShouldClear(multiple, was_showing) == ~multiple /\ was_showing

\* The reset left out.
LastAlertKept(multiple, last_alert) == last_alert

\* if not multiple_viewers_detected: self.num_faces_last_alert = 0
LastAlertReset(multiple, last_alert) == IF ~multiple THEN 0 ELSE last_alert

\* The update made on no branch.
PreviousKept(count, previous) == previous

\* self.previous_face_count = face_count
PreviousTracked(count, previous) == count

\* face_counts[str(face_count)] += 1 (or = 1 for a new key)
Tally(tallies, count) == [tallies EXCEPT ![count] = @ + 1]

\* Sum of the tallies of the counts 0 .. n.
RECURSIVE TallySum(_, _)
TallySum(tallies, n) ==
    IF n < 0 THEN 0 ELSE tallies[n] + TallySum(tallies, n - 1)

\* The emission made on every tick.
StatsDueAlways(total) == TRUE

\* if self.stats["total_detections"] % 10 == 0
StatsDue(total) == total % StatsPeriod = 0

\* self.stats.copy(): a new dictionary with the values of the old one; its
\* "face_counts" entry is the dictionary the thread keeps tallying in, not
\* a copy of it.  face_counts holds the tallies as they were at the copy.
StatsCopy(s, tallies) ==
    [total_detections |-> s.total_detections,
     alert_count |-> s.alert_count,
     face_counts_shared |-> TRUE,
     face_counts |-> tallies]

\* snapshot["face_counts"] as a reader of the snapshot finds it.
SnapshotTallies(snapshot) ==
    IF snapshot.face_counts_shared THEN face_counts
    ELSE snapshot.face_counts

\* checksum_response.text.strip()
Strip(text) == IF text = "ab\n" THEN "ab" ELSE text

\* str.lower()
Lower(text) == IF text = "AB" THEN "ab" ELSE text

\* actual_checksum.lower() == expected_checksum.lower()
ChecksumMatches(actual, expected) == Lower(actual) = Lower(expected)

\* int(100 * downloaded / total_size)
Progress(done, total) == (100 * done) \div total

\* handle_user_dismissal: self.num_faces_last_alert = self.current_face_count
DismissalCount(current, last_alert) == current

\* ------------------------------------------------------------ initial state
\* The state after MainWindow._init_components: the thread object is
\* constructed and not started, the alert dialog exists and is hidden.
InitProgram ==
    /\ is_running = FALSE
    /\ is_paused = FALSE
    /\ current_face_count = 0
    /\ detection_manager = FALSE
    /\ is_alert_showing = FALSE
    /\ previous_face_count = 0
    /\ num_faces_last_alert = 0
    /\ consecutive_detections = 0
    /\ last_detection_state = FALSE
    /\ stats = [total_detections |-> 0, alert_count |-> 0]
    /\ face_count = 0
    /\ multiple_viewers_detected = FALSE
    /\ was_alert_showing = FALSE
    /\ gui_pc = "idle"
    /\ gui_queue = <<>>
    /\ alert_on = FALSE
    /\ alert_duration = NoDuration
    /\ alert_visible = FALSE
    /\ dismiss_timers = 0
    /\ notification_timers = 0
    /\ streak = 0
    /\ streak_state = FALSE
    /\ streak_clean = FALSE
    /\ showing_since = 0
    /\ raised_live = FALSE
    /\ last_transition = "NONE"
    /\ dismissed_at = 0
    /\ first_after_dismissal = FALSE
    /\ dismissal_was_showing = FALSE
    /\ tick_log = <<>>
    /\ transition_log = <<>>
    /\ face_counts = [n \in FaceCounts |-> 0]
    /\ snapshots = <<>>
    /\ dl_pc = "idle"
    /\ dl_signals = <<>>
    /\ total_size = 0
    /\ dl_chunks = 0
    /\ downloaded = 0
    /\ last_progress = 0
    /\ expected_checksum = ""
    /\ file_exists = FALSE
    /\ app_version_set = FALSE
    /\ mutex = "free"
    /\ dm_lock = "free"
    /\ show_pc = [t \in ShowThreads |-> "idle"]
    /\ dismiss_event = FALSE

Init ==
    /\ InitProgram
    /\ pc = "stopped"
    /\ is_monitoring = FALSE
    /\ detection_delay_frames = DefaultDelayFrames
    /\ settings = [face_threshold |-> DefaultFaceThreshold,
                   debounce_time |-> DefaultDebounceTime]
    /\ elapsed = DefaultDebounceTime
    /\ script = <<>>
    /\ launch_app = FALSE

\* The state in which the scenario is run: monitoring has just been started
\* with the settings the scenario names or their neighbours, and the frame
\* source will report the scenario's counts.
InitScenario ==
    /\ InitProgram
    /\ pc = "starting"
    /\ is_monitoring = TRUE
    /\ detection_delay_frames \in {DelayFrames(d) : d \in DelayChoices}
    /\ settings \in [face_threshold : Thresholds, debounce_time : {0}]
    /\ elapsed = 0
    /\ script = Scenario
    /\ launch_app = FALSE

\* Monitoring has just been started with a confirmation of one or two ticks;
\* the frame source reports any counts.
InitShow ==
    /\ InitProgram
    /\ pc = "starting"
    /\ is_monitoring = TRUE
    /\ detection_delay_frames \in {DelayFrames(d) : d \in DelayChoices}
    /\ settings \in [face_threshold : Thresholds,
                     debounce_time : DebounceChoices]
    /\ elapsed = DefaultDebounceTime
    /\ script = <<>>
    /\ launch_app = FALSE

\* Monitoring has just been started with the overlay switched off
\* (alert_on false), with or without an application to launch.
InitNotify ==
    /\ InitProgram
    /\ pc = "starting"
    /\ is_monitoring = TRUE
    /\ detection_delay_frames \in {DelayFrames(d) : d \in DelayChoices}
    /\ settings \in [face_threshold : Thresholds,
                     debounce_time : DebounceChoices]
    /\ elapsed = DefaultDebounceTime
    /\ script = <<>>
    /\ launch_app \in BOOLEAN


\* The confirmation lengths the delay choices give, and the longest of them.
Delays == {DelayFrames(d) : d \in DelayChoices}
LongestDelay == CHOOSE d \in Delays : \A e \in Delays : e <= d
\* len ticks in a row that report n.
Steady(n, len) == [i \in 1 .. len |-> n]
\* The counts of a run in which the detector fails on one frame
\* (FaceDetector.detect returns 0 faces for it) between ticks that report
\* an unchanged count; the failure comes after the confirmation.
BadFrameScripts ==
    {Steady(n, a) \o <<0>> \o Steady(n, b) :
         n \in 1 .. MaxFaces, a \in LongestDelay .. MaxSteady,
         b \in 1 .. MaxSteady}

\* Monitoring has just been started and the frame source will report a
\* steady count with one bad frame in it.
InitBadFrame ==
    /\ InitProgram
    /\ pc = "starting"
    /\ is_monitoring = TRUE
    /\ detection_delay_frames \in Delays
    /\ settings \in [face_threshold : Thresholds,
                     debounce_time : DebounceChoices]
    /\ elapsed = DefaultDebounceTime
    /\ script \in BadFrameScripts
    /\ launch_app = FALSE

\* face_threshold and debounce_time as a configuration file can hold them:
\* _load_config takes the values of the JSON file as they are.
ConfigThresholds == {0, DefaultFaceThreshold}
ConfigDebounces == {0 - 1, DefaultDebounceTime}

\* The state after MainWindow._init_components with a loaded
\* configuration: DetectionManagerThread(config_manager.get_all()).
InitConfig ==
    /\ InitProgram
    /\ pc = "stopped"
    /\ is_monitoring = FALSE
    /\ detection_delay_frames = DefaultDelayFrames
    /\ settings \in [face_threshold : ConfigThresholds,
                     debounce_time : ConfigDebounces]
    /\ elapsed = DefaultDebounceTime
    /\ script = <<>>
    /\ launch_app = FALSE

\* Twelve ticks: the scenario, then a count that raises on the tenth tick.
StatsScript == Scenario \o <<0, 2, 2, 0>>

\* Monitoring has just been started and the frame source will report the
\* counts of StatsScript.
InitStats ==
    /\ InitProgram
    /\ pc = "starting"
    /\ is_monitoring = TRUE
    /\ detection_delay_frames \in Delays
    /\ settings \in [face_threshold : Thresholds, debounce_time : {0}]
    /\ elapsed = 0
    /\ script = StatsScript
    /\ launch_app = FALSE
\* ========================================================= polling thread
\* run(), up to the loop: is_running/is_paused are set, a fresh
\* DetectionManager (is_alert_showing = False) is created.  The logs are
\* those of the session that begins.
RunStart ==
    /\ pc = "starting"
    /\ is_running' = TRUE
    /\ is_paused' = FALSE
    /\ detection_manager' = TRUE
    /\ is_alert_showing' = FALSE
    /\ showing_since' = 0
    /\ pc' = "loop"
    /\ tick_log' = <<>>
    /\ transition_log' = <<>>
    /\ UNCHANGED <<config, counters, current_face_count,
                   num_faces_last_alert, locals, gui_vars, obs_tick,
                   raised_live, last_transition, obs_dismiss, script>>
    /\ UNCHANGED ext_vars

\* `while self.is_running` / `if not self.is_running: break` found the flag
\* cleared: the loop is left for _cleanup.
LoopExit ==
    /\ pc \in {"loop", "woken"}
    /\ ~is_running
    /\ pc' = "cleanup"
    /\ UNCHANGED <<thread_vars, locals, gui_vars, obs_vars>>
    /\ UNCHANGED ext_vars

\* `if self.is_paused: self.condition.wait(self.mutex)`: the thread blocks;
\* any amount of time may pass.
LoopWait ==
    /\ pc = "loop"
    /\ is_running
    /\ is_paused
    /\ pc' = "paused"
    /\ elapsed' = settings.debounce_time
    /\ UNCHANGED <<thread_vars, locals, gui_vars, streak, streak_state,
                   streak_clean, obs_alert, obs_dismiss, obs_log>>
    /\ UNCHANGED ext_vars

\* The end of a tick: self.previous_face_count = face_count, the periodic
\* stats_updated.emit(self.stats.copy()), the locals go out of scope, and
\* back in run: time.sleep(0.05).
TickFinish ==
    /\ previous_face_count' = PreviousTracked(face_count, previous_face_count)
    /\ pc' = "loop"
    /\ face_count' = 0
    /\ multiple_viewers_detected' = FALSE
    /\ was_alert_showing' = FALSE
    /\ first_after_dismissal' = FALSE
    /\ dismissed_at' = IF face_count = dismissed_at THEN dismissed_at ELSE 0
    /\ snapshots' = IF tick_log # <<>> /\ StatsDue(stats'.total_detections)
                       THEN Append(snapshots, StatsCopy(stats', face_counts))
                       ELSE snapshots

\* A loop iteration that runs a tick: the loop conditions pass (after a
\* wake-up only is_running is looked at), _process_detection is called with
\* self.current_face_count, and runs from the statistics to
\* `was_alert_showing = ...`: the threshold and the alert flag are read.
\* While a script is set the frame source has to have reported its next count.
TickBegin ==
    /\ IF pc = "woken" THEN is_running
       ELSE pc = "loop" /\ is_running /\ ~is_paused
    /\ detection_manager
    /\ IF script # <<>> THEN current_face_count = Head(script)
       ELSE stats.total_detections < MaxTicks
    /\ face_count' = current_face_count
    /\ stats' = [stats EXCEPT !.total_detections = @ + 1]
    /\ multiple_viewers_detected' =
           MultipleViewers(current_face_count, settings.face_threshold)
    /\ was_alert_showing' = is_alert_showing
    /\ pc' = "decide"
    /\ IF script # <<>>
         THEN /\ script' = Tail(script)
              /\ tick_log' = Append(tick_log, current_face_count)
              /\ face_counts' = Tally(face_counts, current_face_count)
         ELSE UNCHANGED <<script, tick_log, face_counts>>
    /\ dismissed_at' = IF gui_pc = "user_dismissal" THEN 0 ELSE dismissed_at
    /\ UNCHANGED <<life, config, previous_face_count, consecutive_detections,
                   last_detection_state, current_face_count,
                   is_alert_showing, num_faces_last_alert, gui_vars,
                   obs_tick, obs_alert, first_after_dismissal,
                   dismissal_was_showing, transition_log>>
    /\ UNCHANGED <<launch_app, mutex, dm_vars, snapshots, dl_vars>>

\* What a tick decides, given the counter and num_faces_last_alert as the
\* first half of the tick left them.
Decision(consecutive, last_alert) ==
    IF ~Confirmed(consecutive, detection_delay_frames)
      THEN "NONE"
    ELSE IF ShouldRaise(multiple_viewers_detected, was_alert_showing,
                        face_count > previous_face_count, last_alert)
      THEN "RAISE"
    ELSE IF ShouldClear(multiple_viewers_detected, was_alert_showing)
      THEN "CLEAR"
    ELSE "NONE"

\* The verification counter, the reset of num_faces_last_alert below the
\* threshold, the confirmation gate and the choice of the branch.  A tick
\* that takes neither branch ends here.
TickDecide ==
    /\ pc = "decide"
    /\ LET consecutive ==
               NextConsecutive(consecutive_detections,
                   multiple_viewers_detected # last_detection_state)
           last_alert ==
               LastAlertReset(multiple_viewers_detected, num_faces_last_alert)
           decision == Decision(consecutive, last_alert)
           restart == streak = 0 \/ multiple_viewers_detected # streak_state
       IN  /\ consecutive_detections' = consecutive
           /\ last_detection_state' = multiple_viewers_detected
           /\ num_faces_last_alert' = last_alert
           /\ streak' = IF restart THEN 1 ELSE streak + 1
           /\ streak_state' = multiple_viewers_detected
           /\ streak_clean' = /\ ~was_alert_showing
                              /\ ~is_alert_showing
                              /\ IF restart THEN streak > 0 ELSE streak_clean
           /\ transition_log' = IF Len(transition_log) < Len(tick_log)
                                  THEN Append(transition_log, decision)
                                  ELSE transition_log
           /\ IF decision = "NONE"
                THEN /\ UNCHANGED stats
                     /\ TickFinish
                     /\ elapsed' = Min(elapsed + SleepInterval,
                                       settings.debounce_time)
                ELSE /\ pc' = IF decision = "RAISE" THEN "raise" ELSE "clear"
                     /\ elapsed' = 0
                     /\ UNCHANGED <<previous_face_count, stats, locals,
                                    dismissed_at, first_after_dismissal,
                                    snapshots>>
    /\ UNCHANGED <<life, config, current_face_count, is_alert_showing,
                   gui_vars, obs_alert, dismissal_was_showing, script,
                   tick_log>>
    /\ UNCHANGED <<launch_app, mutex, dm_vars, face_counts, dl_vars>>

\* self.detection_manager.is_alert_showing = True
TickRaiseFlag ==
    /\ pc = "raise"
    /\ is_alert_showing' = TRUE
    /\ pc' = "raise_emit"
    /\ raised_live' = TRUE
    /\ last_transition' = "RAISE"
    /\ streak_clean' = FALSE
    /\ dismissed_at' = 0
    /\ first_after_dismissal' = FALSE
    /\ UNCHANGED <<life, config, counters, current_face_count,
                   num_faces_last_alert, locals, gui_vars, elapsed, streak,
                   streak_state, showing_since, dismissal_was_showing,
                   obs_log>>
    /\ UNCHANGED ext_vars

\* num_faces_last_alert, the counter reset, show_alert, alert_count,
\* alert_state_changed(True); the tick ends.
TickRaiseEmit ==
    /\ pc = "raise_emit"
    /\ Len(gui_queue) < MaxQueue
    /\ num_faces_last_alert' = face_count
    /\ consecutive_detections' = 0
    /\ gui_queue' = Append(gui_queue, "show_alert")
    /\ stats' = [stats EXCEPT !.alert_count = @ + 1]
    /\ showing_since' = IF is_alert_showing THEN face_count ELSE 0
    /\ elapsed' = Min(elapsed + SleepInterval, settings.debounce_time)
    /\ TickFinish
    /\ UNCHANGED <<life, config, last_detection_state, current_face_count,
                   is_alert_showing, gui_pc, is_monitoring, alert_cfg,
                   alert_visible, timers, streak, streak_state, streak_clean,
                   raised_live, last_transition, dismissal_was_showing,
                   obs_log>>
    /\ UNCHANGED <<launch_app, mutex, dm_vars, face_counts, dl_vars>>

\* self.detection_manager.is_alert_showing = False
TickClearFlag ==
    /\ pc = "clear"
    /\ is_alert_showing' = FALSE
    /\ raised_live' = FALSE
    /\ showing_since' = 0
    /\ pc' = "clear_emit"
    /\ UNCHANGED <<life, config, counters, current_face_count,
                   num_faces_last_alert, locals, gui_vars, obs_tick,
                   last_transition, obs_dismiss, obs_log>>
    /\ UNCHANGED ext_vars

\* num_faces_last_alert = 0, dismiss_alert, alert_state_changed(False); the
\* tick ends.
TickClearEmit ==
    /\ pc = "clear_emit"
    /\ Len(gui_queue) < MaxQueue
    /\ num_faces_last_alert' = 0
    /\ gui_queue' = Append(gui_queue, "dismiss_alert")
    /\ last_transition' = "CLEAR"
    /\ elapsed' = Min(elapsed + SleepInterval, settings.debounce_time)
    /\ UNCHANGED stats
    /\ TickFinish
    /\ UNCHANGED <<life, config, consecutive_detections,
                   last_detection_state, current_face_count,
                   is_alert_showing, gui_pc, is_monitoring, alert_cfg,
                   alert_visible, timers, streak, streak_state, streak_clean,
                   showing_since, raised_live, dismissal_was_showing,
                   obs_log>>
    /\ UNCHANGED <<launch_app, mutex, dm_vars, face_counts, dl_vars>>

\* _cleanup with a detection manager: the flag is cleared, the manager
\* dropped, the counter reset, dismiss_alert and manager_stopped emitted;
\* run() returns.
Cleanup ==
    /\ pc = "cleanup"
    /\ detection_manager
    /\ Len(gui_queue) < MaxQueue
    /\ is_alert_showing' = FALSE
    /\ detection_manager' = FALSE
    /\ consecutive_detections' = 0
    /\ gui_queue' = Append(gui_queue, "dismiss_alert")
    /\ pc' = "stopped"
    /\ showing_since' = 0
    /\ raised_live' = FALSE
    /\ streak' = 0
    /\ streak_state' = FALSE
    /\ streak_clean' = FALSE
    /\ elapsed' = settings.debounce_time
    /\ dismissed_at' = 0
    /\ first_after_dismissal' = FALSE
    /\ UNCHANGED <<is_running, is_paused, config, previous_face_count,
                   last_detection_state, stats, current_face_count,
                   num_faces_last_alert, locals, gui_pc, is_monitoring,
                   alert_cfg, alert_visible, timers, last_transition,
                   dismissal_was_showing, obs_log>>
    /\ UNCHANGED ext_vars

\* ============================================================== GUI thread
\* The GUI thread runs one handler at a time; a handler starts when the
\* thread is idle.
GuiIdle == gui_pc = "idle"

\* The polling thread is between two ticks.
BetweenTicks == pc \in {"stopped", "starting", "loop", "paused", "woken"}

\* MainWindow._start_monitoring: detection_thread.start(), frame_timer.start.
\* Signals posted before the click are delivered before it.
StartMonitoring ==
    /\ GuiIdle
    /\ ~is_monitoring
    /\ pc = "stopped"
    /\ gui_queue = <<>>
    /\ is_monitoring' = TRUE
    /\ pc' = "starting"
    /\ UNCHANGED <<thread_vars, locals, gui_pc, gui_queue, alert_cfg,
                   alert_visible, timers, obs_vars>>
    /\ UNCHANGED ext_vars

\* MainWindow._stop_monitoring up to detection_thread.wait(): the overlay is
\* closed, the frame timer stopped, stop() clears is_running and wakes the
\* thread.
StopMonitoring ==
    /\ GuiIdle
    /\ is_monitoring
    /\ pc # "stopped"
    /\ alert_visible' = FALSE
    /\ is_running' = FALSE
    /\ pc' = IF pc = "paused" THEN "woken" ELSE pc
    /\ gui_pc' = "stop_wait"
    /\ UNCHANGED <<is_paused, detection_manager, config, counters,
                   current_face_count, is_alert_showing,
                   num_faces_last_alert, locals, gui_queue, is_monitoring,
                   alert_cfg, timers, obs_vars>>
    /\ UNCHANGED ext_vars

\* wait() left out of _stop_monitoring.
WaitSkipped == TRUE

\* self.detection_thread.wait(): returns once run() has returned.
WaitReturned == pc = "stopped"

\* detection_thread.wait() returned: the rest of _stop_monitoring.
StopFinish ==
    /\ gui_pc = "stop_wait"
    /\ WaitReturned
    /\ is_monitoring' = FALSE
    /\ gui_pc' = "idle"
    /\ UNCHANGED <<thread_vars, tick_vars, gui_queue, alert_cfg,
                   alert_visible, timers, obs_vars>>
    /\ UNCHANGED ext_vars

\* MainWindow._process_frame -> update_face_count(num_faces), on the frame
\* timer.
UpdateFaceCount(n) ==
    /\ GuiIdle
    /\ is_monitoring
    /\ n # current_face_count
    /\ current_face_count' = n
    /\ UNCHANGED <<life, config, counters, is_alert_showing,
                   num_faces_last_alert, tick_vars, gui_vars, obs_vars>>
    /\ UNCHANGED ext_vars

\* MainWindow._apply_settings: DetectionManagerThread.update_settings and
\* AlertDialog.update_settings (which closes a visible dialog when alert_on
\* is switched off and takes alert_duration only when it is not None).
UpdateSettings(threshold, delay, debounce, on, duration) ==
    /\ GuiIdle
    /\ settings' = [face_threshold |-> threshold, debounce_time |-> debounce]
    /\ detection_delay_frames' = DelayFrames(delay)
    /\ alert_on' = on
    /\ alert_visible' = IF on # alert_on /\ ~on THEN FALSE ELSE alert_visible
    /\ alert_duration' = IF duration # NoDuration THEN duration
                         ELSE alert_duration
    /\ dismissed_at' = 0
    /\ first_after_dismissal' = FALSE
    /\ UNCHANGED <<life, counters, current_face_count, is_alert_showing,
                   num_faces_last_alert, tick_vars, gui_pc, gui_queue,
                   is_monitoring, timers, obs_tick, obs_alert,
                   dismissal_was_showing, obs_log>>
    /\ UNCHANGED ext_vars

\* DetectionManagerThread.pause
Pause ==
    /\ GuiIdle
    /\ is_monitoring
    /\ ~is_paused
    /\ is_paused' = TRUE
    /\ UNCHANGED <<is_running, detection_manager, config, counters,
                   current_face_count, is_alert_showing,
                   num_faces_last_alert, tick_vars, gui_vars, obs_vars>>
    /\ UNCHANGED ext_vars

\* DetectionManagerThread.resume: is_paused cleared, condition.wakeAll().
Resume ==
    /\ GuiIdle
    /\ is_monitoring
    /\ is_paused
    /\ is_paused' = FALSE
    /\ pc' = IF pc = "paused" THEN "woken" ELSE pc
    /\ UNCHANGED <<is_running, detection_manager, config, counters,
                   current_face_count, is_alert_showing,
                   num_faces_last_alert, locals, gui_vars, obs_vars>>
    /\ UNCHANGED ext_vars

\* MainWindow._on_show_alert chooses the presentation: app launch enabled
\* with a path, else alert_on off, else the overlay.
Presentation ==
    IF launch_app THEN "LAUNCH"
    ELSE IF ~alert_on THEN "NOTIFICATION"
    ELSE "OVERLAY"

\* MainWindow._on_show_alert, run for a queued show_alert: the app-launch
\* branch shows the notification and sets the flag; the notification branch
\* (alert_on false) does the same and arms the 500 ms auto-clear; the overlay
\* branch closes a visible dialog and shows it again.  showEvent and
\* _show_native_notification arm the alert_duration timer;
\* _show_native_notification closes a visible dialog.
OnShowAlert ==
    /\ GuiIdle
    /\ gui_queue # <<>>
    /\ Head(gui_queue) = "show_alert"
    /\ alert_duration # NoDuration => dismiss_timers < MaxTimers
    /\ Presentation = "NOTIFICATION" => notification_timers < MaxTimers
    /\ gui_queue' = Tail(gui_queue)
    /\ dismiss_timers' = IF alert_duration # NoDuration
                           THEN dismiss_timers + 1 ELSE dismiss_timers
    /\ IF Presentation # "OVERLAY"
         THEN /\ alert_visible' = FALSE
              /\ is_alert_showing' =
                     IF detection_manager THEN TRUE ELSE is_alert_showing
              /\ streak_clean' =
                     IF detection_manager THEN FALSE ELSE streak_clean
              /\ notification_timers' =
                     IF Presentation = "NOTIFICATION"
                       THEN notification_timers + 1 ELSE notification_timers
         ELSE /\ alert_visible' = TRUE
              /\ UNCHANGED <<is_alert_showing, streak_clean,
                             notification_timers>>
    /\ UNCHANGED <<life, config, counters, current_face_count,
                   num_faces_last_alert, tick_vars, gui_pc, is_monitoring,
                   alert_cfg, elapsed, streak, streak_state, obs_alert,
                   obs_dismiss, obs_log>>
    /\ UNCHANGED ext_vars

\* MainWindow._on_dismiss_alert up to the first statements of
\* handle_user_dismissal: the dialog is closed; with a detection manager the
\* flag is cleared and alert_state_changed(False) is emitted.
OnDismissAlert(by_user) ==
    /\ alert_visible' = FALSE
    /\ IF detection_manager
         THEN /\ is_alert_showing' = FALSE
              /\ showing_since' = 0
              /\ gui_pc' = IF by_user THEN "user_dismissal" ELSE "dismissal"
              /\ dismissal_was_showing' = is_alert_showing
         ELSE UNCHANGED <<is_alert_showing, showing_since, gui_pc,
                          dismissal_was_showing>>
    /\ raised_live' = IF by_user THEN FALSE ELSE raised_live
    /\ IF by_user
         THEN /\ dismissed_at' = IF detection_manager /\ BetweenTicks
                                   THEN showing_since ELSE 0
              /\ first_after_dismissal' = FALSE
         ELSE UNCHANGED <<dismissed_at, first_after_dismissal>>
    /\ UNCHANGED <<life, config, counters, current_face_count,
                   num_faces_last_alert, tick_vars, is_monitoring, alert_cfg,
                   timers, obs_tick, last_transition, obs_log>>

\* The queued dismiss_alert signal (threshold clear, _cleanup) is delivered.
HandleDismissSignal ==
    /\ GuiIdle
    /\ gui_queue # <<>>
    /\ Head(gui_queue) = "dismiss_alert"
    /\ gui_queue' = Tail(gui_queue)
    /\ OnDismissAlert(FALSE)
    /\ UNCHANGED ext_vars

\* AlertDialog._on_user_dismiss: the Dismiss button of the visible overlay,
\* user_dismiss_alert is connected to _on_dismiss_alert.
UserDismiss ==
    /\ GuiIdle
    /\ alert_visible
    /\ UNCHANGED gui_queue
    /\ OnDismissAlert(TRUE)
    /\ UNCHANGED ext_vars

\* handle_user_dismissal, last statement:
\* self.num_faces_last_alert = self.current_face_count
DismissalRecord ==
    /\ gui_pc \in {"dismissal", "user_dismissal"}
    /\ num_faces_last_alert' =
           DismissalCount(current_face_count, num_faces_last_alert)
    /\ gui_pc' = "idle"
    /\ first_after_dismissal' = (gui_pc = "user_dismissal" /\ dismissed_at > 0)
    /\ dismissal_was_showing' = FALSE
    /\ UNCHANGED <<life, config, counters, current_face_count,
                   is_alert_showing, tick_vars, gui_queue, is_monitoring,
                   alert_cfg, alert_visible, timers, obs_tick, obs_alert,
                   dismissed_at, obs_log>>
    /\ UNCHANGED ext_vars

\* AlertDialog.dismiss_timer fires: _on_auto_dismiss closes the dialog.
\* Nothing is reported to the detection thread.
AutoDismissTimeout ==
    /\ GuiIdle
    /\ dismiss_timers > 0
    /\ dismiss_timers' = dismiss_timers - 1
    /\ alert_visible' = FALSE
    /\ raised_live' = IF alert_visible THEN FALSE ELSE raised_live
    /\ UNCHANGED <<thread_vars, tick_vars, gui_pc, gui_queue, is_monitoring,
                   alert_cfg, notification_timers, obs_tick, showing_since,
                   last_transition, obs_dismiss, obs_log>>
    /\ UNCHANGED ext_vars

\* MainWindow._auto_dismiss_notification_alert, 500 ms after a notification.
AutoDismissNotification ==
    /\ GuiIdle
    /\ notification_timers > 0
    /\ notification_timers' = notification_timers - 1
    /\ is_alert_showing' = IF detection_manager THEN FALSE
                           ELSE is_alert_showing
    /\ showing_since' = IF detection_manager THEN 0 ELSE showing_since
    /\ UNCHANGED <<life, config, counters, current_face_count,
                   num_faces_last_alert, tick_vars, gui_pc, gui_queue,
                   is_monitoring, alert_cfg, alert_visible, dismiss_timers,
                   obs_tick, raised_live, last_transition, obs_dismiss,
                   obs_log>>
    /\ UNCHANGED ext_vars

\* ======================================================== DetectionManager
\* DetectionManager's own alert path (src/DetectionManager.py): a caller of
\* process_detection and the show threads it starts.  They work on the
\* is_alert_showing flag that the polling thread and the GUI thread use.

\* The show threads whose alert window is open.
ShowWindows == {t \in ShowThreads : show_pc[t] = "window"}

\* The guard of _show_privacy_alert left out.
AlreadyShowingIgnored(showing) == FALSE

\* if self.is_alert_showing:  # Prevent multiple alerts
AlreadyShowing(showing) == showing

\* process_detection(n) past the debounce gate, under self.lock: above the
\* threshold with no alert showing a show thread is started; at or below it
\* with an alert showing _dismiss_alert is called, which takes the lock the
\* caller holds (threading.Lock is not reentrant): the caller blocks for good.
ProcessDetection(n) ==
    /\ detection_manager
    /\ dm_lock = "free"
    /\ MultipleViewers(n, settings.face_threshold) # is_alert_showing
    /\ IF ~is_alert_showing
         THEN /\ \E t \in ShowThreads :
                     /\ show_pc[t] = "idle"
                     /\ show_pc' = [show_pc EXCEPT ![t] = "started"]
              /\ UNCHANGED dm_lock
         ELSE /\ dm_lock' = "caller"
              /\ UNCHANGED show_pc
    /\ UNCHANGED <<thread_vars, tick_vars, gui_vars, obs_vars, launch_app, snap_vars, dl_vars,
                   mutex, dismiss_event>>

\* _show_privacy_alert, the locked section: return when an alert is showing,
\* else set the flag and clear the dismiss event.
ShowEnter(t) ==
    /\ show_pc[t] = "started"
    /\ dm_lock = "free"
    /\ IF AlreadyShowing(is_alert_showing)
         THEN /\ show_pc' = [show_pc EXCEPT ![t] = "idle"]
              /\ UNCHANGED <<is_alert_showing, dismiss_event>>
         ELSE /\ show_pc' = [show_pc EXCEPT ![t] = "entered"]
              /\ is_alert_showing' = TRUE
              /\ dismiss_event' = FALSE
    /\ UNCHANGED <<life, config, counters, current_face_count,
                   num_faces_last_alert, tick_vars, gui_vars, obs_vars,
                   launch_app, snap_vars, dl_vars, mutex, dm_lock>>

\* _show_privacy_alert, after the lock: the alert window is created and shown.
ShowOpen(t) ==
    /\ show_pc[t] = "entered"
    /\ show_pc' = [show_pc EXCEPT ![t] = "window"]
    /\ UNCHANGED <<thread_vars, tick_vars, gui_vars, obs_vars, launch_app, snap_vars, dl_vars,
                   mutex, dm_lock, dismiss_event>>

\* A key press or the end of alert_duration in the show thread:
\* _dismiss_alert sets the event, destroys the window and clears the flag
\* when the flag is set; the thread ends.
ShowDismiss(t) ==
    /\ show_pc[t] = "window"
    /\ dm_lock = "free"
    /\ show_pc' = [show_pc EXCEPT ![t] = "idle"]
    /\ IF is_alert_showing
         THEN /\ dismiss_event' = TRUE
              /\ is_alert_showing' = FALSE
              /\ showing_since' = 0
         ELSE UNCHANGED <<dismiss_event, is_alert_showing, showing_since>>
    /\ UNCHANGED <<life, config, counters, current_face_count,
                   num_faces_last_alert, tick_vars, gui_vars, obs_tick,
                   raised_live, last_transition, obs_dismiss, obs_log,
                   launch_app, snap_vars, dl_vars, mutex, dm_lock>>

\* `while not self.dismiss_event.is_set()` finds the event set by another
\* thread's _dismiss_alert: the show thread ends.
ShowEventSeen(t) ==
    /\ show_pc[t] = "window"
    /\ dismiss_event
    /\ show_pc' = [show_pc EXCEPT ![t] = "idle"]
    /\ UNCHANGED <<thread_vars, tick_vars, gui_vars, obs_vars, launch_app, snap_vars, dl_vars,
                   mutex, dm_lock, dismiss_event>>


\* ------------------------------------------------- the thread's QMutex
\* run(): `while self.is_running:` passed, self.mutex.lock() acquired.
LoopLock ==
    /\ pc = "loop"
    /\ is_running
    /\ mutex = "free"
    /\ mutex' = "poll"
    /\ pc' = "locked"
    /\ UNCHANGED <<thread_vars, locals, gui_vars, obs_vars, launch_app, snap_vars, dl_vars,
                   dm_vars>>

\* `if self.is_paused` found no pause request: self.mutex.unlock().
LoopUnlock ==
    /\ pc = "locked"
    /\ ~is_paused
    /\ mutex' = "free"
    /\ pc' = "woken"
    /\ UNCHANGED <<thread_vars, locals, gui_vars, obs_vars, launch_app, snap_vars, dl_vars,
                   dm_vars>>

\* The tick that follows the locked section:
\* self._process_detection(self.current_face_count).
TickAfterUnlock ==
    /\ pc = "woken"
    /\ TickBegin

\* update_face_count: self.mutex.lock()
UpdateLock ==
    /\ GuiIdle
    /\ is_monitoring
    /\ mutex = "free"
    /\ mutex' = "gui"
    /\ gui_pc' = "update_locked"
    /\ UNCHANGED <<thread_vars, tick_vars, gui_queue, is_monitoring,
                   alert_cfg, alert_visible, timers, obs_vars, launch_app, snap_vars, dl_vars,
                   dm_vars>>

\* update_face_count: self.current_face_count = face_count
UpdateWrite(n) ==
    /\ gui_pc = "update_locked"
    /\ current_face_count' = n
    /\ gui_pc' = "update_written"
    /\ UNCHANGED <<life, config, counters, is_alert_showing,
                   num_faces_last_alert, tick_vars, gui_queue, is_monitoring,
                   alert_cfg, alert_visible, timers, obs_vars, ext_vars>>

\* update_face_count: self.mutex.unlock()
UpdateUnlock ==
    /\ gui_pc = "update_written"
    /\ mutex' = "free"
    /\ gui_pc' = "idle"
    /\ UNCHANGED <<thread_vars, tick_vars, gui_queue, is_monitoring,
                   alert_cfg, alert_visible, timers, obs_vars, launch_app, snap_vars, dl_vars,
                   dm_vars>>

\* ------------------------------------------------ failures of the thread
\* run(), up to the loop, when the DetectionManager constructor raises:
\* _init_detection_manager reports error_occurred and
\* self.detection_manager stays None.
RunStartFailed ==
    /\ pc = "starting"
    /\ Len(gui_queue) < MaxQueue
    /\ is_running' = TRUE
    /\ is_paused' = FALSE
    /\ gui_queue' = Append(gui_queue, "error_occurred")
    /\ pc' = "loop"
    /\ tick_log' = <<>>
    /\ transition_log' = <<>>
    /\ UNCHANGED <<detection_manager, config, counters, current_face_count,
                   is_alert_showing, num_faces_last_alert, locals, gui_pc,
                   is_monitoring, alert_cfg, alert_visible, timers, obs_tick,
                   obs_alert, obs_dismiss, script, ext_vars>>

\* A loop iteration without a detection manager: _process_detection
\* returns at once, then time.sleep(0.05).
TickSkipped ==
    /\ pc = "loop"
    /\ is_running
    /\ ~is_paused
    /\ ~detection_manager
    /\ elapsed' = Min(elapsed + SleepInterval, settings.debounce_time)
    /\ UNCHANGED <<thread_vars, tick_vars, gui_vars, streak, streak_state,
                   streak_clean, obs_alert, obs_dismiss, obs_log, ext_vars>>

\* _cleanup without a detection manager: self.detection_manager
\* .is_alert_showing raises AttributeError, the handler of run() reports
\* error_occurred and calls _cleanup again, which raises again: the thread
\* ends with nothing reset and neither dismiss_alert nor manager_stopped
\* emitted.
CleanupFailed ==
    /\ pc = "cleanup"
    /\ ~detection_manager
    /\ Len(gui_queue) < MaxQueue
    /\ gui_queue' = Append(gui_queue, "error_occurred")
    /\ pc' = "stopped"
    /\ UNCHANGED <<thread_vars, locals, gui_pc, is_monitoring, alert_cfg,
                   alert_visible, timers, obs_vars, ext_vars>>

\* MainWindow._handle_error: the message goes to the status bar.
HandleErrorSignal ==
    /\ GuiIdle
    /\ gui_queue # <<>>
    /\ Head(gui_queue) = "error_occurred"
    /\ gui_queue' = Tail(gui_queue)
    /\ UNCHANGED <<thread_vars, tick_vars, gui_pc, is_monitoring, alert_cfg,
                   alert_visible, timers, obs_vars, ext_vars>>

\* ------------------------------------------------ presentation failures
\* _show_privacy_alert: creating or showing the alert window raises.
ShowRaise(t) ==
    /\ show_pc[t] = "entered"
    /\ show_pc' = [show_pc EXCEPT ![t] = "failed"]
    /\ UNCHANGED <<thread_vars, tick_vars, gui_vars, obs_vars, launch_app, snap_vars, dl_vars,
                   mutex, dm_lock, dismiss_event>>

\* _show_privacy_alert, `except Exception`: the error is logged and, under
\* the lock, is_alert_showing set to False; the thread ends.
ShowFailed(t) ==
    /\ show_pc[t] = "failed"
    /\ dm_lock = "free"
    /\ show_pc' = [show_pc EXCEPT ![t] = "idle"]
    /\ is_alert_showing' = FALSE
    /\ showing_since' = 0
    /\ UNCHANGED <<life, config, counters, current_face_count,
                   num_faces_last_alert, tick_vars, gui_vars, obs_tick,
                   raised_live, last_transition, obs_dismiss, obs_log,
                   launch_app, snap_vars, dl_vars, mutex, dm_lock, dismiss_event>>

\* MainWindow._on_show_alert when the presentation raises
\* (_show_native_notification, or alert_dialog.show() after a visible
\* dialog was closed): the slot has no exception handler, the statements
\* after the failing call are not executed.
OnShowAlertFailed ==
    /\ GuiIdle
    /\ gui_queue # <<>>
    /\ Head(gui_queue) = "show_alert"
    /\ gui_queue' = Tail(gui_queue)
    /\ alert_visible' = IF Presentation = "OVERLAY" THEN FALSE
                        ELSE alert_visible
    /\ gui_pc' = "show_failed"
    /\ UNCHANGED <<thread_vars, tick_vars, is_monitoring, alert_cfg, timers,
                   obs_vars, ext_vars>>

\* The exception has left the slot: the GUI thread is back in its event
\* loop.
ShowFailureReturn ==
    /\ gui_pc = "show_failed"
    /\ gui_pc' = "idle"
    /\ UNCHANGED <<thread_vars, tick_vars, gui_queue, is_monitoring,
                   alert_cfg, alert_visible, timers, obs_vars, ext_vars>>


\* ------------------------------------------- UpdateCheckerThread download
\* download_update_dmg (src/core/update_checker.py), step by step.  What the
\* network and the file system answer is chosen at the step that asks.

\* Everything of the program outside the update download.
dl_frame == <<thread_vars, tick_vars, gui_vars, obs_vars, launch_app, mutex,
              dm_vars, snap_vars>>

\* Steps 1 to 4, up to the first chunk: the release is fetched, the update
\* asset found, the download request answered and the file opened for
\* writing.
DownloadBegin(size_known, chunks) ==
    /\ dl_pc = "idle"
    /\ dl_pc' = "download"
    /\ dl_signals' = <<>>
    /\ total_size' = IF size_known THEN chunks ELSE 0
    /\ dl_chunks' = chunks
    /\ downloaded' = 0
    /\ last_progress' = 0
    /\ expected_checksum' = ""
    /\ file_exists' = TRUE
    /\ UNCHANGED app_version_set
    /\ UNCHANGED dl_frame

\* Steps 1 to 3 raise (request failed, no asset, no download URL): the outer
\* except returns None before anything was written or emitted.
DownloadRefused ==
    /\ dl_pc = "idle"
    /\ dl_signals' = <<>>
    /\ UNCHANGED <<dl_pc, total_size, dl_chunks, downloaded, last_progress,
                   expected_checksum, file_exists, app_version_set>>
    /\ UNCHANGED dl_frame

\* One chunk of iter_content is written; download_progress is emitted when
\* the percentage has grown.
DownloadChunk ==
    /\ dl_pc = "download"
    /\ dl_chunks > 0
    /\ dl_chunks' = dl_chunks - 1
    /\ downloaded' = downloaded + 1
    /\ last_progress' =
           IF total_size > 0 /\ Progress(downloaded', total_size) > last_progress
             THEN Progress(downloaded', total_size)
             ELSE last_progress
    /\ UNCHANGED <<dl_pc, dl_signals, total_size, expected_checksum,
                   file_exists, app_version_set>>
    /\ UNCHANGED dl_frame

\* The connection breaks while the chunks are read: the outer except returns
\* None and leaves the partial file.
DownloadBroken ==
    /\ dl_pc = "download"
    /\ dl_chunks > 0
    /\ dl_pc' = "idle"
    /\ UNCHANGED <<dl_signals, total_size, dl_chunks, downloaded,
                   last_progress, expected_checksum, file_exists,
                   app_version_set>>
    /\ UNCHANGED dl_frame

\* Step 5, first half: verification_started is emitted and the checksum
\* asset looked for.  expected_checksum stays None when the release has no
\* EyesOff.checksum asset or its download fails (found false); else it is
\* the stripped body.
VerificationStart(found, text) ==
    /\ dl_pc = "download"
    /\ dl_chunks = 0
    /\ dl_pc' = "verify"
    /\ dl_signals' = Append(dl_signals, "verification_started")
    /\ expected_checksum' = IF found THEN Strip(text) ELSE ""
    /\ UNCHANGED <<total_size, dl_chunks, downloaded, last_progress,
                   file_exists, app_version_set>>
    /\ UNCHANGED dl_frame

\* Step 5, second half, the file read and hashed to actual.  With an
\* expected checksum: a match emits verification_success and sets
\* app_version, a mismatch emits verification_failed, removes the file and
\* returns None.  Without one verification_failed is emitted and the call
\* goes on to step 6.
VerificationCompare(actual) ==
    /\ dl_pc = "verify"
    /\ IF expected_checksum # ""
         THEN IF ChecksumMatches(actual, expected_checksum)
                THEN /\ dl_signals' = Append(dl_signals, "verification_success")
                     /\ app_version_set' = TRUE
                     /\ dl_pc' = "validate"
                     /\ UNCHANGED file_exists
                ELSE /\ dl_signals' = Append(dl_signals, "verification_failed")
                     /\ file_exists' = FALSE
                     /\ dl_pc' = "idle"
                     /\ UNCHANGED app_version_set
         ELSE /\ dl_signals' = Append(dl_signals, "verification_failed")
              /\ dl_pc' = "validate"
              /\ UNCHANGED <<file_exists, app_version_set>>
    /\ UNCHANGED <<total_size, dl_chunks, downloaded, last_progress,
                   expected_checksum>>
    /\ UNCHANGED dl_frame

\* Step 5, reading or hashing the file raises: verification_failed is
\* emitted and None returned.
VerificationError ==
    /\ dl_pc = "verify"
    /\ dl_signals' = Append(dl_signals, "verification_failed")
    /\ dl_pc' = "idle"
    /\ UNCHANGED <<total_size, dl_chunks, downloaded, last_progress,
                   expected_checksum, file_exists, app_version_set>>
    /\ UNCHANGED dl_frame

\* Step 6: when the file is there, validate_update_file decides between
\* download_completed and verification_failed with the file removed; the
\* call returns.
DownloadFinish(valid) ==
    /\ dl_pc = "validate"
    /\ dl_pc' = "idle"
    /\ IF file_exists
         THEN IF valid
                THEN /\ dl_signals' = Append(dl_signals, "download_completed")
                     /\ UNCHANGED file_exists
                ELSE /\ dl_signals' = Append(dl_signals, "verification_failed")
                     /\ file_exists' = FALSE
         ELSE UNCHANGED <<dl_signals, file_exists>>
    /\ UNCHANGED <<total_size, dl_chunks, downloaded, last_progress,
                   expected_checksum, app_version_set>>
    /\ UNCHANGED dl_frame

\* The temporary file is removed from outside the program.
FileRemoved ==
    /\ dl_pc = "validate"
    /\ file_exists
    /\ file_exists' = FALSE
    /\ UNCHANGED <<dl_pc, dl_signals, total_size, dl_chunks, downloaded,
                   last_progress, expected_checksum, app_version_set>>
    /\ UNCHANGED dl_frame
\* =========================================================== specifications
PollingThread ==
    \/ RunStart
    \/ LoopExit
    \/ TickBegin
    \/ TickDecide
    \/ TickRaiseFlag
    \/ TickRaiseEmit
    \/ TickClearFlag
    \/ TickClearEmit
    \/ Cleanup

GuiThread ==
    \/ StartMonitoring
    \/ StopMonitoring
    \/ StopFinish
    \/ \E n \in FaceCounts : UpdateFaceCount(n)
    \/ \E threshold \in Thresholds, delay \in DelayChoices,
          debounce \in DebounceChoices, on \in BOOLEAN,
          duration \in DurationChoices :
              UpdateSettings(threshold, delay, debounce, on, duration)
    \/ OnShowAlert
    \/ HandleDismissSignal
    \/ UserDismiss
    \/ DismissalRecord
    \/ AutoDismissTimeout
    \/ AutoDismissNotification

Next == PollingThread \/ GuiThread

Spec == Init /\ [][Next]_vars

\* The application with a caller of pause() and resume(); alert_duration
\* stays None (its default), so no overlay timer is armed.
NextPausable ==
    \/ PollingThread
    \/ LoopWait
    \/ StartMonitoring
    \/ StopMonitoring
    \/ StopFinish
    \/ \E n \in FaceCounts : UpdateFaceCount(n)
    \/ \E threshold \in Thresholds, delay \in DelayChoices,
          debounce \in DebounceChoices, on \in BOOLEAN :
              UpdateSettings(threshold, delay, debounce, on, NoDuration)
    \/ Pause
    \/ Resume
    \/ OnShowAlert
    \/ HandleDismissSignal
    \/ UserDismiss
    \/ DismissalRecord
    \/ AutoDismissNotification

PausableSpec == Init /\ [][NextPausable]_vars

\* The scenario: the frame source and the polling thread only, no GUI
\* handler runs between the ticks.
NextScenario ==
    \/ \E n \in FaceCounts : UpdateFaceCount(n)
    \/ RunStart
    \/ TickBegin
    \/ TickDecide
    \/ TickRaiseFlag
    \/ TickRaiseEmit
    \/ TickClearFlag
    \/ TickClearEmit

ScenarioSpec == InitScenario /\ [][NextScenario]_vars

\* The polling thread next to a DetectionManager whose process_detection is
\* driven too: its caller and its show threads.
NextShow ==
    \/ \E n \in FaceCounts : UpdateFaceCount(n)
    \/ RunStart
    \/ TickBegin
    \/ TickDecide
    \/ TickRaiseFlag
    \/ TickRaiseEmit
    \/ TickClearFlag
    \/ TickClearEmit
    \/ \E n \in FaceCounts : ProcessDetection(n)
    \/ \E t \in ShowThreads : ShowEnter(t)
    \/ \E t \in ShowThreads : ShowOpen(t)
    \/ \E t \in ShowThreads : ShowDismiss(t)
    \/ \E t \in ShowThreads : ShowEventSeen(t)

ShowSpec == InitShow /\ [][NextShow]_vars

\* Monitoring with alerts presented as notifications.  The polling thread
\* keeps running, the GUI event loop delivers every queued signal and every
\* armed timer fires.
NextNotify ==
    \/ \E n \in FaceCounts : UpdateFaceCount(n)
    \/ RunStart
    \/ TickBegin
    \/ TickDecide
    \/ TickRaiseFlag
    \/ TickRaiseEmit
    \/ TickClearFlag
    \/ TickClearEmit
    \/ OnShowAlert
    \/ HandleDismissSignal
    \/ DismissalRecord
    \/ AutoDismissNotification

NotifyFairness ==
    /\ WF_vars(RunStart \/ TickBegin \/ TickDecide \/ TickRaiseFlag
                   \/ TickRaiseEmit \/ TickClearFlag \/ TickClearEmit)
    /\ WF_vars(OnShowAlert)
    /\ WF_vars(HandleDismissSignal)
    /\ WF_vars(DismissalRecord)
    /\ WF_vars(AutoDismissNotification)

NotifySpec == InitNotify /\ [][NextNotify]_vars /\ NotifyFairness


\* Monitoring sessions: the scenario's counts are consumed by the ticks of
\* one session after the other, monitoring being stopped and started again
\* in between.
NextSession ==
    \/ StartMonitoring
    \/ StopMonitoring
    \/ StopFinish
    \/ \E n \in FaceCounts : UpdateFaceCount(n)
    \/ RunStart
    \/ LoopExit
    \/ TickBegin
    \/ TickDecide
    \/ TickRaiseFlag
    \/ TickRaiseEmit
    \/ TickClearFlag
    \/ TickClearEmit
    \/ Cleanup
    \/ OnShowAlert
    \/ HandleDismissSignal
    \/ DismissalRecord
    \/ AutoDismissNotification

SessionSpec == InitScenario /\ [][NextSession]_vars

\* The run loop and update_face_count with their mutex sections as steps
\* of their own, next to the handlers that dismiss an alert.
NextMutex ==
    \/ RunStart
    \/ LoopLock
    \/ LoopUnlock
    \/ TickAfterUnlock
    \/ TickDecide
    \/ TickRaiseFlag
    \/ TickRaiseEmit
    \/ TickClearFlag
    \/ TickClearEmit
    \/ UpdateLock
    \/ \E n \in FaceCounts : UpdateWrite(n)
    \/ UpdateUnlock
    \/ OnShowAlert
    \/ HandleDismissSignal
    \/ DismissalRecord
    \/ AutoDismissNotification

MutexSpec == InitNotify /\ [][NextMutex]_vars

\* Monitoring sessions in which creating the DetectionManager may fail.
NextFail ==
    \/ StartMonitoring
    \/ StopMonitoring
    \/ StopFinish
    \/ \E n \in FaceCounts : UpdateFaceCount(n)
    \/ RunStart
    \/ RunStartFailed
    \/ LoopExit
    \/ TickBegin
    \/ TickDecide
    \/ TickSkipped
    \/ Cleanup
    \/ CleanupFailed
    \/ HandleDismissSignal
    \/ HandleErrorSignal

FailSpec == Init /\ [][NextFail]_vars

\* Alerts whose presentation may fail: the show threads of the
\* DetectionManager and the show_alert slot of the main window.
NextShowFail ==
    \/ NextShow
    \/ \E t \in ShowThreads : ShowRaise(t)
    \/ \E t \in ShowThreads : ShowFailed(t)
    \/ OnShowAlert
    \/ OnShowAlertFailed
    \/ ShowFailureReturn
    \/ HandleDismissSignal
    \/ DismissalRecord
    \/ AutoDismissNotification

\* Monitoring has just been started with the default threshold and a
\* confirmation of one tick.
InitShowFail ==
    /\ InitShow
    /\ detection_delay_frames = 1
    /\ settings.face_threshold = DefaultFaceThreshold

ShowFailSpec == InitShowFail /\ [][NextShowFail]_vars

\* The polling thread fed a steady count with one bad frame.
BadFrameSpec == InitBadFrame /\ [][NextScenario]_vars

\* Sessions run on a loaded configuration, and update_settings called with
\* whatever values its caller hands it.
NextConfig ==
    \/ StartMonitoring
    \/ StopMonitoring
    \/ StopFinish
    \/ \E n \in FaceCounts : UpdateFaceCount(n)
    \/ \E threshold \in ConfigThresholds, debounce \in ConfigDebounces :
          UpdateSettings(threshold, 0, debounce, FALSE, NoDuration)
    \/ PollingThread
    \/ OnShowAlert
    \/ HandleDismissSignal
    \/ DismissalRecord
    \/ AutoDismissNotification

ConfigSpec == InitConfig /\ [][NextConfig]_vars

\* The polling thread fed twelve ticks, enough for a statistics emission and
\* ticks after it.
StatsSpec == InitStats /\ [][NextScenario]_vars

\* Calls of download_update_dmg, one after the other, with every answer of
\* the network and the file system.
NextDownload ==
    \/ \E size_known \in BOOLEAN, chunks \in 1 .. MaxChunks :
           DownloadBegin(size_known, chunks)
    \/ DownloadRefused
    \/ DownloadChunk
    \/ DownloadBroken
    \/ \E found \in BOOLEAN, text \in ChecksumTexts :
           VerificationStart(found, text)
    \/ \E actual \in Digests : VerificationCompare(actual)
    \/ VerificationError
    \/ \E valid \in BOOLEAN : DownloadFinish(valid)
    \/ FileRemoved

DownloadSpec == Init /\ [][NextDownload]_vars
\* =================================================================== claims
\* A tick is deciding: the step that follows is TickDecide.
Deciding == pc = "decide"

\* C1. Debounce: a tick that runs less than debounce_time after the latest
\* RAISE or CLEAR decides no RAISE and no CLEAR, whatever count it reports
\* and whatever detection_delay_frames is.
C1_Debounce ==
    [][(Deciding /\ elapsed < settings.debounce_time)
           => pc' \notin {"raise", "clear"}]_vars

\* C2. Confirmation: on every tick that raises or clears the alert the
\* thresholded boolean has had the same value on at least
\* detection_delay_frames consecutive processed ticks ending with that tick,
\* after any sequence of ticks, dismissals, setting updates, pause/resume and
\* stop/restart.
C2_Confirmation ==
    [][(Deciding /\ pc' \in {"raise", "clear"})
           => /\ streak' >= detection_delay_frames
              /\ streak_state' = multiple_viewers_detected]_vars

\* A CLEAR has been decided under a delay of more than one tick while a
\* pause request is pending.
C2_Witness ==
    /\ pc = "clear"
    /\ detection_delay_frames > 1
    /\ streak >= detection_delay_frames
    /\ is_paused

\* C3. Re-fire on increase: an alert raised at count N and dismissed by the
\* user is followed by a new alert on the next processed tick when that tick
\* reports N + 1, for every detection_delay_frames >= 1.
C3_RefireOnIncrease ==
    [][(Deciding /\ pc' # pc /\ first_after_dismissal /\ dismissed_at > 0
            /\ face_count = dismissed_at + 1)
           => pc' = "raise"]_vars

\* C4. No re-fire at the same count: while the flag has stayed true since an
\* alert was raised at count N, a tick reporting N neither emits show_alert
\* nor increments alert_count.
C4_NoRefireSameCount ==
    [][(~BetweenTicks /\ showing_since > 0 /\ face_count = showing_since)
           => /\ stats'.alert_count = stats.alert_count
              /\ \/ Len(gui_queue') <= Len(gui_queue)
                 \/ gui_queue'[Len(gui_queue')] # "show_alert"]_vars

\* A tick reporting the count of the alert that is still showing is
\* deciding, and the confirmation gate is open for it.
C4_Witness ==
    /\ Deciding
    /\ showing_since > 0
    /\ face_count = showing_since
    /\ multiple_viewers_detected
    /\ Confirmed(NextConsecutive(consecutive_detections,
                     multiple_viewers_detected # last_detection_state),
                 detection_delay_frames)

\* C5. User dismissal records the current count: after an alert raised at
\* count N was dismissed by the user, ticks that keep reporting N raise no
\* new alert.
C5_DismissalRecordsCount ==
    [][(Deciding /\ dismissed_at > 0 /\ face_count = dismissed_at)
           => pc' # "raise"]_vars

\* C6. Threshold drop clears: after a tick cleared the alert
\* num_faces_last_alert is 0, also once the GUI thread has handled the
\* dismiss_alert signal, until the next RAISE.
C6_ClearResetsLastAlert ==
    last_transition = "CLEAR" => num_faces_last_alert = 0

\* C7. Raise when coming from below the threshold: when a tick at or below
\* the threshold is followed by detection_delay_frames consecutive ticks
\* above it and no alert shows meanwhile, the last of them raises the alert,
\* in every interleaving with the GUI-thread handlers.
C7_RaiseFromBelow ==
    [][(Deciding /\ pc' # pc /\ multiple_viewers_detected /\ streak_clean'
            /\ streak' = detection_delay_frames)
           => pc' = "raise"]_vars

C9_AlertFlagInvariant ==
    is_alert_showing => raised_live

\* C10. Dismiss is idempotent: the dismiss path run while is_alert_showing
\* is already false leaves num_faces_last_alert as it was.
C10_DismissIdempotent ==
    [][(gui_pc \in {"dismissal", "user_dismissal"} /\ gui_pc' = "idle"
            /\ ~dismissal_was_showing)
           => num_faces_last_alert' = num_faces_last_alert]_vars

\* C11. Show is idempotent: the polling thread emits show_alert on no tick
\* that started with is_alert_showing true, and a _show_privacy_alert thread
\* that finds is_alert_showing true returns and opens no window, also when
\* several show threads have been started.
C11_ShowIdempotent ==
    [][/\ (/\ Len(gui_queue') > Len(gui_queue)
           /\ gui_queue'[Len(gui_queue')] = "show_alert")
          => ~was_alert_showing
       /\ \A t \in ShowThreads :
              (show_pc[t] = "started" /\ show_pc'[t] # "started"
                   /\ is_alert_showing)
                  => (show_pc'[t] = "idle" /\ ShowWindows' = ShowWindows)]_vars

\* A tick that started with the flag true is deciding on a confirmed,
\* increased count above the threshold, while one show thread has its window
\* open and a second one, started as well, is about to test the flag.
C11_Witness ==
    /\ Deciding
    /\ was_alert_showing
    /\ multiple_viewers_detected
    /\ face_count > previous_face_count
    /\ Confirmed(NextConsecutive(consecutive_detections,
                     multiple_viewers_detected # last_detection_state),
                 detection_delay_frames)
    /\ is_alert_showing
    /\ \E t, u \in ShowThreads :
           show_pc[t] = "started" /\ show_pc[u] = "window"

\* C12. Notification auto-clear: whenever a raised alert is presented as a
\* notification (alert_on false, or app launch enabled) is_alert_showing
\* becomes false again without a user action and without waiting for a
\* threshold drop, and the auto-clear leaves num_faces_last_alert as it was.
C12_NotificationAutoClear ==
    /\ []((is_alert_showing /\ Presentation # "OVERLAY")
             => <>(\/ ~is_alert_showing
                   \/ current_face_count <= settings.face_threshold))
    /\ [][notification_timers' < notification_timers
             => num_faces_last_alert' = num_faces_last_alert]_vars

\* The polling thread has entered the loop of a session and is between two
\* ticks of it.
InSession == pc = "loop"

\* The session has processed no tick yet.
SessionStart == InSession /\ tick_log = <<>>

\* Number of RAISE transitions in a log of transitions.
RaiseCount(log) == Cardinality({i \in 1 .. Len(log) : log[i] = "RAISE"})

\* C13. Stats: within a monitoring session, after N ticks total_detections
\* is N and alert_count is the number of RAISE transitions of the session.
C13_SessionStats ==
    InSession
        => /\ stats.total_detections = Len(tick_log)
           /\ stats.alert_count = RaiseCount(transition_log)

\* C14. Statistics are reset per session: at the start of a session,
\* also one that follows a stop, total_detections and alert_count are 0.
C14_StatsResetPerSession ==
    SessionStart
        => /\ stats.total_detections = 0
           /\ stats.alert_count = 0

\* C15. Alert state is reset per session: at the first tick of every
\* session is_alert_showing is false and previous_face_count,
\* num_faces_last_alert, consecutive_detections and last_detection_state
\* have their initial values.
C15_AlertStateResetPerSession ==
    SessionStart
        => /\ ~is_alert_showing
           /\ previous_face_count = 0
           /\ num_faces_last_alert = 0
           /\ consecutive_detections = 0
           /\ last_detection_state = FALSE

\* The polling thread is inside _process_detection.
InTick == pc \in {"decide", "raise", "raise_emit", "clear", "clear_emit"}

\* The GUI thread is inside handle_user_dismissal.
InDismissal == gui_pc \in {"dismissal", "user_dismissal"}

\* C16. Tick and user dismissal are mutually exclusive: no step of
\* handle_user_dismissal runs between the steps of a _process_detection
\* tick.
C16_TickDismissalExclusive ==
    ~(InTick /\ InDismissal)

\* C17. current_face_count is lock-protected: the step that writes it
\* (update_face_count) and the steps that read it (the call of
\* _process_detection in run, handle_user_dismissal) are taken by a thread
\* that holds the mutex.
C17_FaceCountLocked ==
    [][/\ (gui_pc = "update_locked" /\ gui_pc' # gui_pc) => mutex = "gui"
       /\ (pc = "woken" /\ pc' = "decide") => mutex = "poll"
       /\ (InDismissal /\ gui_pc' = "idle") => mutex = "gui"]_vars

\* _stop_monitoring has called stop() and is blocked in
\* detection_thread.wait(); the thread has not ended.
StopPending == gui_pc = "stop_wait" /\ pc # "stopped"

\* C18. Stop terminates the loop: from stop() until the thread has ended
\* the stop request stands (is_running is false), so that the run loop
\* exits at its next test and wait() returns, also when stop() came before
\* the first statements of run().
C18_StopTerminates ==
    StopPending => ~is_running

\* The step emits show_alert.
EmitsShowAlert ==
    /\ Len(gui_queue') > Len(gui_queue)
    /\ gui_queue'[Len(gui_queue')] = "show_alert"

\* _stop_monitoring has returned and every queued signal is handled.
TornDown == ~is_monitoring /\ GuiIdle /\ gui_queue = <<>>

ThreadEnds == pc = "cleanup" /\ pc' = "stopped"

\* C20. Orderly end of the polling thread: whenever the loop has ended,
\* also when creating the DetectionManager failed at start, cleanup
\* completes (the manager is dropped, consecutive_detections reset) and
\* dismiss_alert is emitted once.
C20_OrderlyEnd ==
    [][ThreadEnds
           => /\ gui_queue' = Append(gui_queue, "dismiss_alert")
              /\ ~detection_manager'
              /\ consecutive_detections' = 0]_vars

\* C21. Presentation failure fails safe: when a presentation that raised
\* has been dealt with (the except clause of _show_privacy_alert has run,
\* the exception has left _on_show_alert), is_alert_showing is false.
C21_PresentationFailsSafe ==
    [][/\ \A t \in ShowThreads :
              (show_pc[t] = "failed" /\ show_pc'[t] = "idle")
                  => ~is_alert_showing'
       /\ (gui_pc = "show_failed" /\ gui_pc' = "idle")
              => ~is_alert_showing']_vars

\* The transition of tick i of a run that reports the count n on every
\* tick from a fresh start: RAISE on the tick that confirms a count above
\* the threshold, nothing else.
SteadyTransition(n, i) ==
    IF MultipleViewers(n, settings.face_threshold)
          /\ i = detection_delay_frames
      THEN "RAISE"
      ELSE "NONE"

\* C22. A single bad frame changes nothing: when one tick reports 0 faces
\* between ticks that report an unchanged count, every tick makes the
\* transition it makes in the run without the bad frame.
C22_SingleBadFrame ==
    \A i \in 1 .. Len(transition_log) :
        transition_log[i] = SteadyTransition(tick_log[1], i)

\* face_threshold >= 1 and a debounce time that is not negative.
ValidConfig(s) == s.face_threshold >= 1 /\ s.debounce_time >= 0

\* C23. Configuration errors are rejected: no monitoring session runs on,
\* or adopts, a face_threshold below 1 or a negative debounce_time.
C23_ConfigRejected ==
    pc # "stopped" => ValidConfig(settings)

\* Every emitted signal has been handled, no handler is running and the
\* polling thread is between two ticks.
Quiescent == GuiIdle /\ gui_queue = <<>> /\ BetweenTicks

\* C24. Overlay and flag agree: once the GUI thread has handled the queued
\* show_alert and dismiss_alert signals, in whatever order relative to the
\* ticks, a visible overlay comes with is_alert_showing true.
C24_OverlayFlagAgree ==
    (Quiescent /\ alert_visible) => is_alert_showing

\* The step completes a tick.
TickEnds == InTick /\ pc' = "loop"

C26_PreviousTracksTick ==
    [][TickEnds => previous_face_count' = face_count]_vars

\* A tick that clears the alert is about to end, and its count is below
\* the count of the tick before it.
C26_Witness ==
    /\ pc = "clear_emit"
    /\ face_count < previous_face_count

\* C27. Statistics snapshots are immutable and consistent: every snapshot
\* emitted through stats_updated still shows the face_counts tallies it was
\* emitted with, and their sum is the snapshot's total_detections.
C27_SnapshotImmutable ==
    \A i \in 1 .. Len(snapshots) :
        /\ SnapshotTallies(snapshots[i]) = snapshots[i].face_counts
        /\ TallySum(SnapshotTallies(snapshots[i]), MaxFaces)
               = snapshots[i].total_detections

C29_LockReleased == dm_lock = "free"

\* C30. An update is offered only after verification: in a run of
\* download_update_dmg download_completed is emitted only after
\* verification_success, and never in a run that emitted
\* verification_failed.
C30_VerifiedBeforeOffer ==
    \A i \in 1 .. Len(dl_signals) :
        dl_signals[i] = "download_completed" =>
            /\ \E j \in 1 .. i - 1 : dl_signals[j] = "verification_success"
            /\ \A j \in 1 .. Len(dl_signals) :
                   dl_signals[j] # "verification_failed"
====
